---- MODULE Spec2Model ----
(***************************************************************************)
(* Tennis-Stats: analysis.py (loading, per-match metrics, season summary,  *)
(* lookup by date) and tool.py (the summary / match / plot subcommands).   *)
(*                                                                         *)
(* Floats.  Every float the program produces is a quotient of two integer  *)
(* counters (or of two integer column sums).  A float is modelled by the   *)
(* exact rational it rounds, a record [num, den] in lowest terms with      *)
(* den > 0; 0.0 is [num |-> 0, den |-> 1].  Two values with den = 0 stand  *)
(* for what is not a finite float: NaN (the mean of an empty column) and   *)
(* ZeroDivisionError (a float division by zero, which raises in Python).   *)
(*                                                                         *)
(* Strings.  A result code is a sequence of one-character strings, so that *)
(* str.upper() and str.strip() are computed character by character.  A     *)
(* date string is parsed through the table ParseTable; a parsed date is    *)
(* the day number of its timestamp.                                        *)
(***************************************************************************)
EXTENDS Integers, Sequences, FiniteSets, TLC

VARIABLES
    csv,          \* the input table: the rows of the CSV file, in file order
    pc,           \* "start", "done" (the call returned), "failed" (it raised)
    cmd,          \* what ran: "none", "summary", "match", "plot", "_safe_div", "compute_match_metrics"
    arg,          \* <<the --date or --metric string>>, <<>> when there is none
    results_dir,  \* TRUE once ensure_results() created results/
    df,           \* the DataFrame load_matches returned
    row,          \* <<the row looked up or passed in>>, <<>> for None
    m,            \* <<the dict compute_match_metrics returned>>, <<>> before
    s,            \* <<the Summary compute_summary returned>>, <<>> before
    x,            \* the plot's x values (dates)
    vals,         \* the plot's y values
    written,      \* the files written, in order
    err,          \* the exception that ended the run, "" when none
    numerator,    \* _safe_div's first argument
    denominator,  \* _safe_div's second argument
    quotient      \* <<what _safe_div returned>>, <<>> before

vars == <<csv, pc, cmd, arg, results_dir, df, row, m, s, x, vals, written, err,
          numerator, denominator, quotient>>

(***************************************************************************)
(* Bounds of the model.                                                    *)
(***************************************************************************)
\* Rows in an input table.
MaxRows == 2
\* Largest raw counter of the record given to compute_match_metrics.
MaxCount == 2
\* Largest absolute value of an argument of _safe_div.
MaxN == 5

(***************************************************************************)
(* Floats as exact rationals.                                              *)
(***************************************************************************)
Abs(i) == IF i < 0 THEN -i ELSE i

RECURSIVE GCD(_, _)
GCD(a, b) == IF b = 0 THEN a ELSE GCD(b, a % b)

Zero == [num |-> 0, den |-> 1]
NaN == [num |-> 0, den |-> 0]
ZeroDivisionError == [num |-> 1, den |-> 0]

\* float(n) / float(d): raises on a zero divisor.
FloatDiv(n, d) ==
    IF d = 0 THEN ZeroDivisionError
    ELSE LET g == GCD(Abs(n), Abs(d))
             sgn == IF d < 0 THEN -1 ELSE 1
         IN [num |-> (sgn * n) \div g, den |-> Abs(d) \div g]

\* The mutant of _safe_div: the guard tests denominator > 0.
SafeDivPositiveGuard(n, d) == IF d > 0 THEN FloatDiv(n, d) ELSE Zero

\* return float(numerator) / float(denominator) if denominator else 0.0
SafeDiv(n, d) == IF d # 0 THEN FloatDiv(n, d) ELSE Zero

(***************************************************************************)
(* Strings: result codes, date strings, metric names.                      *)
(***************************************************************************)
\* str.upper() on one character (the letters the result codes use).
UpperChar(c) ==
    CASE c = "w" -> "W"
      [] c = "l" -> "L"
      [] c = "x" -> "X"
      [] OTHER -> c

StrUpper(str) == [i \in DOMAIN str |-> UpperChar(str[i])]

RECURSIVE LStrip(_)
LStrip(str) ==
    IF str # <<>> /\ Head(str) = " " THEN LStrip(Tail(str)) ELSE str

RECURSIVE RStrip(_)
RStrip(str) ==
    IF str # <<>> /\ str[Len(str)] = " "
    THEN RStrip(SubSeq(str, 1, Len(str) - 1))
    ELSE str

StrStrip(str) == RStrip(LStrip(str))

W == <<"W">>
L == <<"L">>

\* The date strings pd.to_datetime parses, with the day number of the
\* timestamp each gives (days from 2025-10-07); every other string raises.
ParseTable ==
    { <<"2025-10-08", 1>>, <<"2025-10-09", 2>>, <<"2025-10-10", 3>>,
      <<"10/08/2025", 1>> }

\* pd.to_datetime(str, errors="raise"): <<day>>, or <<>> when it raises.
ToDatetime(str) ==
    IF \E e \in ParseTable : e[1] = str
    THEN <<(CHOOSE e \in ParseTable : e[1] = str)[2]>>
    ELSE <<>>

ALLOWED_METRICS ==
    { "first_serve_pct", "first_serve_pts_won_pct",
      "second_serve_pts_won_pct", "break_points_saved_pct" }

(***************************************************************************)
(* The inputs: input tables, --date strings, --metric strings.             *)
(***************************************************************************)
\* The counters and texts of a row.  The first two are the rows of
\* tests/test_analysis.py; the third has two zero denominators; the last is
\* the degenerate all-zero record.
Profiles ==
    { [opponent |-> "A", surface |-> "hard", score |-> "6-4 6-4",
       aces |-> 5, double_faults |-> 1,
       first_serve_in |-> 40, first_serve_total |-> 50,
       first_serve_points_won |-> 30, first_serve_points_total |-> 40,
       second_serve_points_won |-> 10, second_serve_points_total |-> 20,
       break_points_saved |-> 6, break_points_faced |-> 8],
      [opponent |-> "B", surface |-> "clay", score |-> "3-6 4-6",
       aces |-> 1, double_faults |-> 3,
       first_serve_in |-> 30, first_serve_total |-> 60,
       first_serve_points_won |-> 18, first_serve_points_total |-> 30,
       second_serve_points_won |-> 12, second_serve_points_total |-> 30,
       break_points_saved |-> 2, break_points_faced |-> 6],
      [opponent |-> "C", surface |-> "grass", score |-> "6-0 6-0",
       aces |-> 2, double_faults |-> 0,
       first_serve_in |-> 3, first_serve_total |-> 4,
       first_serve_points_won |-> 3, first_serve_points_total |-> 3,
       second_serve_points_won |-> 0, second_serve_points_total |-> 0,
       break_points_saved |-> 0, break_points_faced |-> 0],
      [opponent |-> "D", surface |-> "hard", score |-> "ret.",
       aces |-> 0, double_faults |-> 0,
       first_serve_in |-> 0, first_serve_total |-> 0,
       first_serve_points_won |-> 0, first_serve_points_total |-> 0,
       second_serve_points_won |-> 0, second_serve_points_total |-> 0,
       break_points_saved |-> 0, break_points_faced |-> 0] }

RowDateStrings == { "2025-10-08", "2025-10-09" }

RawResults == { <<"W">>, <<"L">>, <<"w", " ">>, <<" ", "l">>, <<"X">> }

MkRow(date, result, p) ==
    [date |-> date, result |-> result,
     opponent |-> p.opponent, surface |-> p.surface, score |-> p.score,
     aces |-> p.aces, double_faults |-> p.double_faults,
     first_serve_in |-> p.first_serve_in,
     first_serve_total |-> p.first_serve_total,
     first_serve_points_won |-> p.first_serve_points_won,
     first_serve_points_total |-> p.first_serve_points_total,
     second_serve_points_won |-> p.second_serve_points_won,
     second_serve_points_total |-> p.second_serve_points_total,
     break_points_saved |-> p.break_points_saved,
     break_points_faced |-> p.break_points_faced]

BaseProfile == CHOOSE p \in Profiles : p.opponent = "A"

\* The rows an input table is made of: every profile on every date, won or
\* lost; the first test row with each result spelling; one unparseable date.
RawRows ==
    { MkRow(d, r, p) : d \in RowDateStrings, r \in {W, L}, p \in Profiles }
    \cup { MkRow("2025-10-08", r, BaseProfile) : r \in RawResults }
    \cup { MkRow("not-a-date", W, BaseProfile) }

Tables == UNION { [1..n -> RawRows] : n \in 0..MaxRows }

DateArgs == { "2025-10-08", "2025-10-09", "2025-10-10", "10/08/2025", "yesterday" }

MetricArgs == ALLOWED_METRICS \cup { "aces", "win_rate" }

NoRow ==
    MkRow("", <<>>, [opponent |-> "", surface |-> "", score |-> "",
          aces |-> 0, double_faults |-> 0,
          first_serve_in |-> 0, first_serve_total |-> 0,
          first_serve_points_won |-> 0, first_serve_points_total |-> 0,
          second_serve_points_won |-> 0, second_serve_points_total |-> 0,
          break_points_saved |-> 0, break_points_faced |-> 0])

(***************************************************************************)
(* analysis.py                                                             *)
(***************************************************************************)
\* df["date"] = pd.to_datetime(df["date"], errors="raise") raises when some
\* date string does not parse.
DatesParse(table) == \A i \in DOMAIN table : ToDatetime(table[i].date) # <<>>

\* The two column assignments of load_matches, row by row.
ParsedRows(table) ==
    [i \in DOMAIN table |->
        [table[i] EXCEPT !.date = ToDatetime(table[i].date)[1],
                         !.result = StrStrip(StrUpper(table[i].result))]]

IndexOrders(n) ==
    { p \in [1..n -> 1..n] : \A i, j \in 1..n : i # j => p[i] # p[j] }

\* The mutant of sort_values: descending.
SortValuesDescending(t) ==
    { [i \in DOMAIN t |-> t[p[i]]] :
        p \in { q \in IndexOrders(Len(t)) :
                  \A i, j \in 1..Len(t) : i < j => t[q[i]].date >= t[q[j]].date } }

\* df.sort_values("date").reset_index(drop=True).  sort_values is called
\* without kind, so it sorts with kind="quicksort", which pandas documents as
\* not stable (only "mergesort" and "stable" are): numpy's quicksort is an
\* introsort that keeps equal keys in order only below its small-array
\* cutoff.  The rows of a table here stand for a table of any size, so the
\* rows come out ascending by date and rows with equal dates in any order.
\* The set of the orders the call can return.
SortValues(t) ==
    { [i \in DOMAIN t |-> t[p[i]]] :
        p \in { q \in IndexOrders(Len(t)) :
                  \A i, j \in 1..Len(t) : i < j => t[q[i]].date <= t[q[j]].date } }

\* load_matches(csv_path): the DataFrames it can return (when DatesParse).
LoadMatches(table) == SortValues(ParsedRows(table))

\* The mutant of compute_match_metrics: the two points-won pairs exchanged.
ComputeMatchMetricsSwapped(r) ==
    [first_serve_pct |-> SafeDiv(r.first_serve_in, r.first_serve_total),
     first_serve_pts_won_pct |->
        SafeDiv(r.second_serve_points_won, r.second_serve_points_total),
     second_serve_pts_won_pct |->
        SafeDiv(r.first_serve_points_won, r.first_serve_points_total),
     break_points_saved_pct |-> SafeDiv(r.break_points_saved, r.break_points_faced)]

ComputeMatchMetrics(r) ==
    [first_serve_pct |-> SafeDiv(r.first_serve_in, r.first_serve_total),
     first_serve_pts_won_pct |->
        SafeDiv(r.first_serve_points_won, r.first_serve_points_total),
     second_serve_pts_won_pct |->
        SafeDiv(r.second_serve_points_won, r.second_serve_points_total),
     break_points_saved_pct |-> SafeDiv(r.break_points_saved, r.break_points_faced)]

\* df[col]
Column(d, col) == [i \in DOMAIN d |-> d[i][col]]

RECURSIVE SumFrom(_, _)
SumFrom(col, i) == IF i > Len(col) THEN 0 ELSE col[i] + SumFrom(col, i + 1)

\* The mutant of Series.sum(): the first element is skipped.
SeriesSumSkipFirst(col) == SumFrom(col, 2)

\* Series.sum() of an integer column; 0 for an empty one.
SeriesSum(col) == SumFrom(col, 1)

\* Series.mean(): NaN for an empty column.
SeriesMean(col) ==
    IF Len(col) = 0 THEN NaN ELSE FloatDiv(SeriesSum(col), Len(col))

\* The mutant of the guarded mean: no short-circuit on an empty DataFrame.
AverageUnguarded(d, col) == SeriesMean(Column(d, col))

\* float(df[col].mean()) if matches else 0.0
Average(d, col) == IF Len(d) # 0 THEN SeriesMean(Column(d, col)) ELSE Zero

\* (df["result"] == code).sum()
CountResult(d, code) ==
    SeriesSum([i \in DOMAIN d |-> IF d[i].result = code THEN 1 ELSE 0])

RECURSIVE RateSumFrom(_, _, _, _)
RateSumFrom(d, numcol, dencol, i) ==
    IF i > Len(d) THEN Zero
    ELSE LET a == SafeDiv(d[i][numcol], d[i][dencol])
             b == RateSumFrom(d, numcol, dencol, i + 1)
         IN FloatDiv(a.num * b.den + b.num * a.den, a.den * b.den)

\* The mutant of a season rate: the mean of the per-match rates.
MeanOfMatchRates(d, numcol, dencol) ==
    IF Len(d) = 0 THEN Zero
    ELSE LET t == RateSumFrom(d, numcol, dencol, 1)
         IN FloatDiv(t.num, t.den * Len(d))

\* _safe_div(df[numcol].sum(), df[dencol].sum())
SeasonRate(d, numcol, dencol) ==
    SafeDiv(SeriesSum(Column(d, numcol)), SeriesSum(Column(d, dencol)))

\* The mutant of the losses count: every match that is not a win.
CountLossesAsRest(d) == Len(d) - CountResult(d, W)

\* int((df["result"] == "L").sum())
CountLosses(d) == CountResult(d, L)

ComputeSummary(d) ==
    LET matches == Len(d)
        wins == CountResult(d, W)
        losses == CountLosses(d)
    IN [matches |-> matches,
        wins |-> wins,
        losses |-> losses,
        win_rate |-> SafeDiv(wins, matches),
        avg_aces |-> Average(d, "aces"),
        avg_double_faults |-> Average(d, "double_faults"),
        first_serve_pct |-> SeasonRate(d, "first_serve_in", "first_serve_total"),
        first_serve_pts_won_pct |->
            SeasonRate(d, "first_serve_points_won", "first_serve_points_total"),
        second_serve_pts_won_pct |->
            SeasonRate(d, "second_serve_points_won", "second_serve_points_total"),
        break_points_saved_pct |->
            SeasonRate(d, "break_points_saved", "break_points_faced")]

\* The mutant of find_match_by_date: hit.iloc[-1].
FindLastMatchByDate(d, day) ==
    LET hit == SelectSeq(d, LAMBDA r : r.date = day)
    IN IF hit = <<>> THEN <<>> ELSE <<hit[Len(hit)]>>

\* find_match_by_date(df, date_str), after date_str parsed to day:
\* <<hit.iloc[0]>>, or <<>> for None.
FindMatchByDate(d, day) ==
    LET hit == SelectSeq(d, LAMBDA r : r.date = day)
    IN IF hit = <<>> THEN <<>> ELSE <<hit[1]>>

(***************************************************************************)
(* tool.py: one run of the program is one subcommand.                      *)
(***************************************************************************)
\* The mutant of the plot loop: the metric is hard-coded.
PlotValuesFirstServe(d, metric) ==
    [i \in DOMAIN d |-> ComputeMatchMetrics(d[i])["first_serve_pct"]]

\* vals: for index, row in df.iterrows(): compute_match_metrics(row)[metric]
PlotValues(d, metric) ==
    [i \in DOMAIN d |-> ComputeMatchMetrics(d[i])[metric]]

Raise(c, a, dir, e) ==
    /\ pc' = "failed"
    /\ cmd' = c
    /\ arg' = a
    /\ results_dir' = dir
    /\ err' = e

Return(c, a, dir) ==
    /\ pc' = "done"
    /\ cmd' = c
    /\ arg' = a
    /\ results_dir' = dir
    /\ err' = ""

cmd_summary ==
    /\ pc = "start"
    /\ IF ~DatesParse(csv)
       THEN /\ Raise("summary", <<>>, TRUE, "DateParseError")
            /\ UNCHANGED <<df, s, written>>
       ELSE \E d \in LoadMatches(csv) :
            /\ df' = d
            /\ s' = <<ComputeSummary(d)>>
            /\ written' = Append(written, "results/summary.json")
            /\ Return("summary", <<>>, TRUE)
    /\ UNCHANGED <<csv, row, m, x, vals, numerator, denominator, quotient>>

cmd_match(date) ==
    /\ pc = "start"
    /\ IF ~DatesParse(csv)
       THEN /\ Raise("match", <<date>>, results_dir, "DateParseError")
            /\ UNCHANGED <<df, row, m>>
       ELSE \E d \in LoadMatches(csv) :
            /\ df' = d
            /\ IF ToDatetime(date) = <<>>
               THEN /\ Raise("match", <<date>>, results_dir, "DateParseError")
                    /\ UNCHANGED <<row, m>>
               ELSE LET hit == FindMatchByDate(d, ToDatetime(date)[1])
                    IN /\ row' = hit
                       /\ IF hit = <<>>
                          THEN /\ Raise("match", <<date>>, results_dir,
                                        "SystemExit: No match found for date")
                               /\ UNCHANGED m
                          ELSE /\ m' = <<ComputeMatchMetrics(hit[1])>>
                               /\ Return("match", <<date>>, results_dir)
    /\ UNCHANGED <<csv, s, x, vals, written, numerator, denominator, quotient>>

cmd_plot(metric) ==
    /\ pc = "start"
    /\ IF ~DatesParse(csv)
       THEN /\ Raise("plot", <<metric>>, TRUE, "DateParseError")
            /\ UNCHANGED <<df, x, vals, written>>
       ELSE \E d \in LoadMatches(csv) :
            /\ df' = d
            /\ IF metric \notin ALLOWED_METRICS
               THEN /\ Raise("plot", <<metric>>, TRUE, "SystemExit: metric must be one of")
                    /\ UNCHANGED <<x, vals, written>>
               ELSE /\ vals' = PlotValues(d, metric)
                    /\ x' = Column(d, "date")
                    /\ written' = Append(written, "results/" \o metric \o ".png")
                    /\ Return("plot", <<metric>>, TRUE)
    /\ UNCHANGED <<csv, row, m, s, numerator, denominator, quotient>>

Init ==
    /\ csv \in Tables
    /\ pc = "start"
    /\ cmd = "none"
    /\ arg = <<>>
    /\ results_dir = FALSE
    /\ df = <<>>
    /\ row = <<>>
    /\ m = <<>>
    /\ s = <<>>
    /\ x = <<>>
    /\ vals = <<>>
    /\ written = <<>>
    /\ err = ""
    /\ numerator = 0
    /\ denominator = 0
    /\ quotient = <<>>

Next ==
    \/ cmd_summary
    \/ \E date \in DateArgs : cmd_match(date)
    \/ \E metric \in MetricArgs : cmd_plot(metric)

Spec == Init /\ [][Next]_vars

(***************************************************************************)
(* _safe_div on its own: every pair of small integers.                     *)
(***************************************************************************)
InitDiv ==
    /\ numerator \in -MaxN..MaxN
    /\ denominator \in -MaxN..MaxN
    /\ quotient = <<>>
    /\ csv = <<>>
    /\ pc = "start"
    /\ cmd = "none"
    /\ arg = <<>>
    /\ results_dir = FALSE
    /\ df = <<>>
    /\ row = <<>>
    /\ m = <<>>
    /\ s = <<>>
    /\ x = <<>>
    /\ vals = <<>>
    /\ written = <<>>
    /\ err = ""

call_safe_div ==
    /\ pc = "start"
    /\ LET q == SafeDiv(numerator, denominator)
       IN IF q = ZeroDivisionError
          THEN /\ Raise("_safe_div", <<>>, results_dir, "ZeroDivisionError")
               /\ UNCHANGED quotient
          ELSE /\ quotient' = <<q>>
               /\ Return("_safe_div", <<>>, results_dir)
    /\ UNCHANGED <<csv, df, row, m, s, x, vals, written, numerator, denominator>>

NextDiv == call_safe_div

SpecDiv == InitDiv /\ [][NextDiv]_vars

(***************************************************************************)
(* compute_match_metrics on its own: every record with small counters.     *)
(***************************************************************************)
Counts == 0..MaxCount

InitMetrics ==
    /\ \E a, b, c, d, e, f, g, h \in Counts :
         row = << [NoRow EXCEPT !.first_serve_in = a, !.first_serve_total = b,
                                !.first_serve_points_won = c,
                                !.first_serve_points_total = d,
                                !.second_serve_points_won = e,
                                !.second_serve_points_total = f,
                                !.break_points_saved = g,
                                !.break_points_faced = h] >>
    /\ m = <<>>
    /\ csv = <<>>
    /\ pc = "start"
    /\ cmd = "none"
    /\ arg = <<>>
    /\ results_dir = FALSE
    /\ df = <<>>
    /\ s = <<>>
    /\ x = <<>>
    /\ vals = <<>>
    /\ written = <<>>
    /\ err = ""
    /\ numerator = 0
    /\ denominator = 0
    /\ quotient = <<>>

call_compute_match_metrics ==
    /\ pc = "start"
    /\ LET d == ComputeMatchMetrics(row[1])
       IN IF \E k \in DOMAIN d : d[k] = ZeroDivisionError
          THEN /\ Raise("compute_match_metrics", <<>>, results_dir, "ZeroDivisionError")
               /\ UNCHANGED m
          ELSE /\ m' = <<d>>
               /\ Return("compute_match_metrics", <<>>, results_dir)
    /\ UNCHANGED <<csv, df, row, s, x, vals, written, numerator, denominator, quotient>>

NextMetrics == call_compute_match_metrics

SpecMetrics == InitMetrics /\ [][NextMetrics]_vars

(***************************************************************************)
(* The properties.                                                         *)
(***************************************************************************)
\* The four rates, each with the counters it is the quotient of.
RatePairs ==
    { [field |-> "first_serve_pct",
       num |-> "first_serve_in", den |-> "first_serve_total"],
      [field |-> "first_serve_pts_won_pct",
       num |-> "first_serve_points_won", den |-> "first_serve_points_total"],
      [field |-> "second_serve_pts_won_pct",
       num |-> "second_serve_points_won", den |-> "second_serve_points_total"],
      [field |-> "break_points_saved_pct",
       num |-> "break_points_saved", den |-> "break_points_faced"] }

RateNames == { p.field : p \in RatePairs }

\* q is the float n / d (d # 0).
IsQuotient(q, n, d) == q.den > 0 /\ q.num * d = n * q.den

\* q is what safe_div(n, d) is specified to be.
IsSafeQuotient(q, n, d) == IF d = 0 THEN q = Zero ELSE IsQuotient(q, n, d)

\* The total of a column over all the records of a history.
Total(d, col) ==
    LET t[i \in 0..Len(d)] == IF i = 0 THEN 0 ELSE t[i - 1] + d[i][col]
    IN t[Len(d)]

\* The number of records of a history with a result code.
NumWith(d, code) == Cardinality({ i \in DOMAIN d : d[i].result = code })

\* The records of a history that have a date, in the history's order.
OnDate(d, day) == SelectSeq(d, LAMBDA r : r.date = day)

Ascending(d) == \A i, j \in DOMAIN d : i < j => d[i].date <= d[j].date

\* load_matches returned (the subcommand may still have raised later).
Loaded == cmd \in {"summary", "match", "plot"} /\ DatesParse(csv)

SummaryDone == cmd = "summary" /\ pc = "done"

\* C1: each of the four season rate fields of compute_summary is
\* safe_div(total of the numerator counter, total of the denominator
\* counter) over all records: the volume-weighted ratio, not the mean of the
\* per-match rates.
C1_SeasonRatesAreRatiosOfTotals ==
    SummaryDone =>
        \A p \in RatePairs :
            IsSafeQuotient(s[1][p.field], Total(df, p.num), Total(df, p.den))

\* Two records with different denominators whose mean of per-match rates
\* (n1/d1 + n2/d2) / 2 differs from the season's first-serve percentage.
C1_Witness ==
    /\ SummaryDone
    /\ Len(df) = 2
    /\ df[1].first_serve_total > 0
    /\ df[2].first_serve_total > 0
    /\ df[1].first_serve_total # df[2].first_serve_total
    /\ LET q == s[1].first_serve_pct
           n1 == df[1].first_serve_in
           d1 == df[1].first_serve_total
           n2 == df[2].first_serve_in
           d2 == df[2].first_serve_total
       IN q.num * (2 * d1 * d2) # (n1 * d2 + n2 * d1) * q.den

\* C2: safe_div(n, d) never fails; it returns 0.0 when d is zero (n = 0
\* included) and n / d for every other d, negative d included.
C2_SafeDivTotal ==
    pc # "start" =>
        /\ pc = "done"
        /\ err = ""
        /\ quotient # <<>>
        /\ quotient[1].den > 0
        /\ denominator = 0 => quotient[1] = Zero
        /\ denominator # 0 =>
              quotient[1].num * denominator = numerator * quotient[1].den

C2_Witness ==
    /\ pc = "done"
    /\ cmd = "_safe_div"
    /\ denominator = 0
    /\ numerator # 0
    /\ quotient = <<Zero>>

\* C3: compute_match_metrics never fails and returns exactly four rates, each
\* safe_div of its own counter pair; a zero denominator gives 0.0 for that
\* rate alone; a rate lies in [0, 1] when its numerator is at most its
\* positive denominator.
C3_MatchMetrics ==
    pc # "start" =>
        /\ pc = "done"
        /\ err = ""
        /\ m # <<>>
        /\ DOMAIN m[1] = RateNames
        /\ \A p \in RatePairs :
              LET q == m[1][p.field]
                  n == row[1][p.num]
                  d == row[1][p.den]
              IN /\ IsSafeQuotient(q, n, d)
                 /\ (d > 0 /\ n <= d) => (0 <= q.num /\ q.num <= q.den)

\* A record with a zero break_points_faced but points saved, and a first
\* serve percentage strictly between 0 and 1.
C3_Witness ==
    /\ pc = "done"
    /\ cmd = "compute_match_metrics"
    /\ row[1].break_points_faced = 0
    /\ row[1].break_points_saved > 0
    /\ m[1].break_points_saved_pct = Zero
    /\ row[1].first_serve_in = 1
    /\ row[1].first_serve_total = 2
    /\ m[1].first_serve_pct = [num |-> 1, den |-> 2]

\* C4: compute_summary returns matches = the number of records, wins = the
\* number with result W, losses = the number with result L, and
\* win_rate = safe_div(wins, matches).
C4_SummaryCounts ==
    SummaryDone =>
        /\ s[1].matches = Len(df)
        /\ s[1].wins = NumWith(df, W)
        /\ s[1].losses = NumWith(df, L)
        /\ IsSafeQuotient(s[1].win_rate, s[1].wins, s[1].matches)

\* A history of one win and one record that is neither a win nor a loss.
C4_Witness ==
    /\ SummaryDone
    /\ s[1].matches = 2
    /\ s[1].wins = 1
    /\ s[1].losses = 0
    /\ s[1].win_rate = [num |-> 1, den |-> 2]

\* C5: load fails with a ValidationError when a result, upper-cased and
\* trimmed, is not exactly W or L: every record of a history load returns
\* has result W or L, and compute_summary gives wins + losses = matches.
C5_LoadRejectsBadResults ==
    Loaded =>
        /\ \A i \in DOMAIN df : df[i].result \in {W, L}
        /\ SummaryDone => s[1].wins + s[1].losses = s[1].matches

\* C6 as claimed: the history load returns is ascending by date, and records
\* with equal dates are in their input order (the sort is stable).
C6_LoadSortedStable ==
    Loaded =>
        /\ Ascending(df)
        /\ \A e \in ParseTable :
              OnDate(df, e[2]) = OnDate(ParsedRows(csv), e[2])

\* C6 as amended: the history load returns is ascending by date and holds
\* exactly the records of the input, each as often as the input does; the
\* order of records with equal dates is not determined.
C6_LoadSortedPermutation ==
    Loaded =>
        /\ Ascending(df)
        /\ Len(df) = Len(csv)
        /\ \A i \in DOMAIN csv :
              LET r == ParsedRows(csv)[i]
              IN Cardinality({ j \in DOMAIN df : df[j] = r })
                 = Cardinality({ j \in DOMAIN csv : ParsedRows(csv)[j] = r })

\* An input in descending date order, loaded.
C6_Witness ==
    /\ Loaded
    /\ Len(csv) = 2
    /\ ToDatetime(csv[1].date)[1] > ToDatetime(csv[2].date)[1]
    /\ df[1].date < df[2].date

\* C7: find_by_date returns a record iff some record of the history has the
\* date; it is the first one in stored order with that date; when there is
\* none it returns the not-found value and does not fail (the caller exits).
C7_FindByDate ==
    (cmd = "match" /\ DatesParse(csv) /\ ToDatetime(arg[1]) # <<>>) =>
        LET day == ToDatetime(arg[1])[1]
            hits == { i \in DOMAIN df : df[i].date = day }
        IN IF hits = {}
           THEN /\ row = <<>>
                /\ pc = "failed"
                /\ err = "SystemExit: No match found for date"
           ELSE /\ row = << df[CHOOSE i \in hits : \A j \in hits : i <= j] >>
                /\ pc = "done"
                /\ err = ""

\* Two different records on the queried date: the first one is returned.
C7_Witness ==
    /\ cmd = "match"
    /\ pc = "done"
    /\ Len(df) = 2
    /\ df[1].date = df[2].date
    /\ df[1] # df[2]
    /\ row = <<df[1]>>

\* C8: compute_summary on an empty history does not fail and returns
\* matches = wins = losses = 0 and 0.0 for win_rate, avg_aces,
\* avg_double_faults and the four season rates; on a non-empty history
\* avg_aces and avg_double_faults are the counter's total over matches.
C8_EmptyAndAverages ==
    SummaryDone =>
        /\ err = ""
        /\ df = <<>> =>
              /\ s[1].matches = 0 /\ s[1].wins = 0 /\ s[1].losses = 0
              /\ s[1].win_rate = Zero
              /\ s[1].avg_aces = Zero
              /\ s[1].avg_double_faults = Zero
              /\ \A f \in RateNames : s[1][f] = Zero
        /\ df # <<>> =>
              /\ IsQuotient(s[1].avg_aces, Total(df, "aces"), Len(df))
              /\ IsQuotient(s[1].avg_double_faults,
                            Total(df, "double_faults"), Len(df))

\* The summary of an empty table.
C8_Witness ==
    /\ SummaryDone
    /\ csv = <<>>
    /\ df = <<>>
    /\ s # <<>>
    /\ s[1].avg_aces = Zero

\* C9: compute_summary returns the same Summary, every field equal, for
\* every permutation of the records of the history.
C9_SummaryOrderIndependent ==
    SummaryDone =>
        \A p \in IndexOrders(Len(df)) :
            ComputeSummary([i \in DOMAIN df |-> df[p[i]]]) = s[1]

\* The summary of two different records.
C9_Witness ==
    /\ SummaryDone
    /\ Len(df) = 2
    /\ df[1] # df[2]
    /\ df[1].aces # df[2].aces

\* C10: a plot of a recognized metric has one (date, value) pair per record
\* of the loaded history, in ascending date order, the value being the
\* record's rate of that metric; an unrecognized metric fails with the
\* invalid-metric error, computes no metric and writes no plot file.
C10_PlotSeries ==
    (cmd = "plot" /\ DatesParse(csv)) =>
        IF arg[1] \in RateNames
        THEN /\ pc = "done"
             /\ Len(x) = Len(df)
             /\ Len(vals) = Len(df)
             /\ \A i \in DOMAIN df :
                   LET p == CHOOSE q \in RatePairs : q.field = arg[1]
                   IN /\ x[i] = df[i].date
                      /\ IsSafeQuotient(vals[i], df[i][p.num], df[i][p.den])
             /\ \A i, j \in DOMAIN x : i < j => x[i] <= x[j]
             /\ written = << "results/" \o arg[1] \o ".png" >>
        ELSE /\ pc = "failed"
             /\ err = "SystemExit: metric must be one of"
             /\ vals = <<>>
             /\ x = <<>>
             /\ m = <<>>
             /\ written = <<>>

\* A plot of break_points_saved_pct over two records of different dates and
\* different values.
C10_Witness ==
    /\ cmd = "plot"
    /\ pc = "done"
    /\ arg = <<"break_points_saved_pct">>
    /\ Len(vals) = 2
    /\ x[1] < x[2]
    /\ vals[1] # vals[2]

====
